---- MODULE Spec2Model ----
(***************************************************************************)
(* Model of the visitor-tracking backend in src/app.py: three Flask routes *)
(* (POST /api/track-visit, GET /api/monthly-visitors, POST                 *)
(* /api/notify-click) over one Visitor table, an outbound mail transport   *)
(* and the after_request hook that adds the CORS headers.                  *)
(*                                                                         *)
(* Requests are served by concurrent request handlers.  A handler is cut   *)
(* into steps only where it touches state shared with the others: the      *)
(* reading of the clock (datetime.now) and the access to the table.        *)
(* Everything the handler does after its last shared access, the framework *)
(* turning the return value into a response and after_request included,    *)
(* belongs to the step that makes that access.                             *)
(***************************************************************************)
EXTENDS Integers, Sequences, FiniteSets, TLC

(***************************************************************************)
(* Bounds of the model.                                                    *)
(***************************************************************************)
\* rows the Visitor table may hold before track-visit requests stop arriving
MaxRecords == 2
\* clock ticks that may pass after the first instant of the model
MaxTicks == 1
\* clock ticks in one calendar month (the granularity of an instant)
TicksPerMonth == 2

(***************************************************************************)
(* Time.  An instant is a number of ticks since the start of year 0; the   *)
(* model starts at the last instant of December 2025, so that both the     *)
(* month and the year change with the next tick.                           *)
(***************************************************************************)
StartTime == (2025 * 12 + 11) * TicksPerMonth + (TicksPerMonth - 1)

\* datetime.month of a UTC instant
MonthOf(t) == ((t \div TicksPerMonth) % 12) + 1

\* datetime.year of a UTC instant
YearOf(t) == (t \div TicksPerMonth) \div 12

(***************************************************************************)
(* Inputs.                                                                 *)
(***************************************************************************)
Workers == {"w1", "w2"}

None == "None"

\* (request.remote_addr, User-Agent header) of the callers
Clients ==
  { [ip_address |-> "10.0.0.1", user_agent |-> "Mozilla/5.0"],
    [ip_address |-> "10.0.0.2", user_agent |-> None] }

\* A POST body is "absent" (no JSON content type), "object" (a JSON object),
\* "malformed" (a JSON content type with text that does not parse) or
\* "array" (valid JSON that is not an object).

\* raw values of a query parameter: a string is a sequence of characters
Absent == <<"absent">>

\* the query strings of the aggregation requests, as the raw (month, year)
\* parameters: none, ?month=12&year=2025, ?month=13&year=2025,
\* ?month=%201&year=%2B2026, ?month=1x, ?year=20x5
Queries ==
  { [month |-> Absent, year |-> Absent],
    [month |-> <<"1", "2">>, year |-> <<"2", "0", "2", "5">>],
    [month |-> <<"1", "3">>, year |-> <<"2", "0", "2", "5">>],
    [month |-> <<" ", "1">>, year |-> <<"+", "2", "0", "2", "6">>],
    [month |-> <<"1", "x">>, year |-> Absent],
    [month |-> Absent, year |-> <<"2", "0", "x", "5">>] }

(***************************************************************************)
(* State.                                                                  *)
(***************************************************************************)
VARIABLES
  store,        \* the Visitor table, in insertion order
  clock,        \* the current UTC instant
  ADMIN_EMAIL,  \* os.environ.get('ADMIN_EMAIL'), None when not set
  MAIL_USERNAME,\* app.config['MAIL_USERNAME'], None when not set
  pc,           \* per handler: where it stands
  endpoint,     \* per handler: the view function the request was routed to
  req,          \* per handler: the raw query parameters of the request
  frame,        \* per handler: the local variables of the view function
  resp,         \* per handler: the response sent to the client
  log,          \* per handler: the errors logged for the request
  mail,         \* per handler: what happened on the mail transport
  acked         \* number of 201 responses produced so far

vars == <<store, clock, ADMIN_EMAIL, MAIL_USERNAME, pc, endpoint, req, frame,
          resp, log, mail, acked>>

NoFrame == [current_time |-> 0, month |-> 0, year |-> 0,
            ip_address |-> None, user_agent |-> None, started |-> 0]

NoReq == [month |-> Absent, year |-> Absent]

NoResp == [status |-> 0, body |-> [none |-> TRUE], headers |-> {}]

(***************************************************************************)
(* The framework: responses and the after_request hook.                    *)
(***************************************************************************)
\* jsonify(body), status
Response(status, body) == [status |-> status, body |-> body, headers |-> {}]

\* after_request with one header forgotten
after_request_without_credentials(response) ==
  [response EXCEPT !.headers = @ \cup
     { <<"Access-Control-Allow-Origin", "*">>,
       <<"Access-Control-Allow-Headers", "Content-Type,Authorization">>,
       <<"Access-Control-Allow-Methods", "GET,PUT,POST,DELETE,OPTIONS">> }]

\* the four CORS headers; FRONTEND_URL is left at its default '*'
after_request(response) ==
  [response EXCEPT !.headers = @ \cup
     { <<"Access-Control-Allow-Origin", "*">>,
       <<"Access-Control-Allow-Headers", "Content-Type,Authorization">>,
       <<"Access-Control-Allow-Methods", "GET,PUT,POST,DELETE,OPTIONS">>,
       <<"Access-Control-Allow-Credentials", "true">> }]

\* what Flask answers when a view raises or returns no response: the HTTP
\* error for an HTTPException (400 for unparsable JSON), 500 otherwise
ErrorResponse(exception) ==
  IF exception = "BadRequest"
  THEN Response(400, [html |-> "Bad Request"])
  ELSE Response(500, [html |-> "Internal Server Error"])

\* a view's return value made into the response the client receives: a view
\* that returns nothing makes Flask raise TypeError, answered as any other
\* unhandled exception; after_request runs on every response
finalize_request(rv) ==
  after_request(IF rv = NoResp THEN ErrorResponse("TypeError") ELSE rv)

(***************************************************************************)
(* The Visitor table.                                                      *)
(***************************************************************************)
\* Visitor(ip_address=..., user_agent=..., visit_month=..., visit_year=...)
Visitor(ip_address, user_agent, visit_month, visit_year) ==
  [ip_address |-> ip_address, user_agent |-> user_agent,
   visit_month |-> visit_month, visit_year |-> visit_year]

\* Insert that skips a caller whose address and agent are already stored
InsertUnlessKnown(table, row, now) ==
  IF \E i \in 1 .. Len(table) :
       /\ table[i].ip_address = row.ip_address
       /\ table[i].user_agent = row.user_agent
  THEN table
  ELSE Append(table,
              [id |-> Len(table) + 1,
               ip_address |-> row.ip_address,
               user_agent |-> row.user_agent,
               timestamp |-> now,
               visit_month |-> row.visit_month,
               visit_year |-> row.visit_year])

\* Insert that also refreshes the period of the caller's earlier rows
InsertAndRefresh(table, row, now) ==
  Append([i \in 1 .. Len(table) |->
            IF table[i].ip_address = row.ip_address
            THEN [table[i] EXCEPT !.visit_month = row.visit_month,
                                  !.visit_year = row.visit_year,
                                  !.timestamp = now]
            ELSE table[i]],
         [id |-> Len(table) + 1,
          ip_address |-> row.ip_address,
          user_agent |-> row.user_agent,
          timestamp |-> now,
          visit_month |-> row.visit_month,
          visit_year |-> row.visit_year])

\* db.session.add(row); db.session.commit(): the INSERT gives the row the
\* next id and evaluates the timestamp column's default, datetime.now, then
Insert(table, row, now) ==
  Append(table,
         [id |-> Len(table) + 1,
          ip_address |-> row.ip_address,
          user_agent |-> row.user_agent,
          timestamp |-> now,
          visit_month |-> row.visit_month,
          visit_year |-> row.visit_year])

\* the rows of a period, in table order
RECURSIVE Filter(_, _, _)
Filter(table, month, year) ==
  IF table = <<>> THEN <<>>
  ELSE LET r == Head(table)
           rest == Filter(Tail(table), month, year)
       IN IF r.visit_month = month /\ r.visit_year = year
          THEN <<r>> \o rest ELSE rest

\* COUNT(DISTINCT ip_address) over a sequence of rows
RECURSIVE CountDistinct(_, _)
CountDistinct(rows, seen) ==
  IF rows = <<>> THEN 0
  ELSE IF Head(rows).ip_address \in seen
       THEN CountDistinct(Tail(rows), seen)
       ELSE 1 + CountDistinct(Tail(rows), seen \cup {Head(rows).ip_address})

\* the count without .distinct(): every row of the period
count_rows(table, month, year) == Len(Filter(table, month, year))

\* the count taken from a snapshot that misses the newest row
count_distinct_visitors_stale(table, month, year) ==
  CountDistinct(Filter(SubSeq(table, 1, Len(table) - 1), month, year), {})

\* query(func.count(Visitor.ip_address.distinct())).filter(...).scalar()
count_distinct_visitors(table, month, year) ==
  CountDistinct(Filter(table, month, year), {})

(***************************************************************************)
(* Query parameters: request.args.get(name, default=..., type=int).        *)
(***************************************************************************)
IsSpace(c) == c \in {" ", "\t", "\n"}

IsDigit(c) == c \in {"0", "1", "2", "3", "4", "5", "6", "7", "8", "9"}

DigitValue(c) ==
  CASE c = "0" -> 0 [] c = "1" -> 1 [] c = "2" -> 2 [] c = "3" -> 3
    [] c = "4" -> 4 [] c = "5" -> 5 [] c = "6" -> 6 [] c = "7" -> 7
    [] c = "8" -> 8 [] c = "9" -> 9

RECURSIVE LStrip(_)
LStrip(s) == IF s # <<>> /\ IsSpace(Head(s)) THEN LStrip(Tail(s)) ELSE s

RECURSIVE RStrip(_)
RStrip(s) ==
  IF s # <<>> /\ IsSpace(s[Len(s)]) THEN RStrip(SubSeq(s, 1, Len(s) - 1)) ELSE s

RECURSIVE DigitsValue(_, _)
DigitsValue(s, acc) ==
  IF s = <<>> THEN acc ELSE DigitsValue(Tail(s), 10 * acc + DigitValue(Head(s)))

\* int(s) of Python: surrounding whitespace is dropped, a sign is allowed,
\* the rest must be decimal digits; anything else raises ValueError (the
\* underscores int() allows between digits occur in no input of the model)
int(s) ==
  LET t == RStrip(LStrip(s))
      signed == t # <<>> /\ Head(t) \in {"+", "-"}
      digits == IF signed THEN Tail(t) ELSE t
  IN IF digits = <<>> \/ \E i \in 1 .. Len(digits) : ~IsDigit(digits[i])
     THEN [ok |-> FALSE, value |-> 0]
     ELSE [ok |-> TRUE,
           value |-> IF signed /\ Head(t) = "-"
                     THEN 0 - DigitsValue(digits, 0)
                     ELSE DigitsValue(digits, 0)]

\* args.get that uses the default for an absent parameter only
args_get_no_fallback(raw, default) ==
  IF raw = Absent THEN default ELSE int(raw).value

\* request.args.get(name, default=default, type=int): the default when the
\* parameter is absent or int() raises ValueError on it
args_get(raw, default) ==
  IF raw = Absent THEN default
  ELSE IF int(raw).ok THEN int(raw).value ELSE default

\* the table is empty; of the mail settings at least one is set (the
\* environment with neither set behaves as the one without ADMIN_EMAIL)
Init ==
  /\ store = <<>>
  /\ clock = StartTime
  /\ ADMIN_EMAIL \in {None, "admin@example.com"}
  /\ MAIL_USERNAME \in {None, "sender@gmail.com"}
  /\ ADMIN_EMAIL # None \/ MAIL_USERNAME # None
  /\ pc = [w \in Workers |-> "idle"]
  /\ endpoint = [w \in Workers |-> None]
  /\ req = [w \in Workers |-> NoReq]
  /\ frame = [w \in Workers |-> NoFrame]
  /\ resp = [w \in Workers |-> NoResp]
  /\ log = [w \in Workers |-> {}]
  /\ mail = [w \in Workers |-> None]
  /\ acked = 0

\* time passes
Tick ==
  /\ clock < StartTime + MaxTicks
  /\ clock' = clock + 1
  /\ UNCHANGED <<store, ADMIN_EMAIL, MAIL_USERNAME, pc, endpoint, req, frame,
                 resp, log, mail, acked>>

\* the handler w ends its request with `response`, having logged `logged`
Send(w, response, logged) ==
  /\ pc' = [pc EXCEPT ![w] = "sent"]
  /\ resp' = [resp EXCEPT ![w] = response]
  /\ log' = [log EXCEPT ![w] = logged]
  /\ frame' = [frame EXCEPT ![w] = NoFrame]
  /\ req' = [req EXCEPT ![w] = NoReq]

\* track-visit requests in flight: each may still add a row
Tracking == {w \in Workers : pc[w] = "track_visit"}

(***************************************************************************)
(* POST /api/track-visit                                                   *)
(***************************************************************************)
\* request.json on a JSON body that is not an object with .get: the view
\* raises before it reaches its try block
TrackVisitBadBody(w) ==
  /\ pc[w] = "idle"
  /\ \E body \in {"malformed", "array"} :
       /\ Send(w,
               finalize_request(ErrorResponse(
                 IF body = "malformed" THEN "BadRequest" ELSE "AttributeError")),
               IF body = "malformed" THEN {} ELSE {"Exception on /api/track-visit"})
  /\ endpoint' = [endpoint EXCEPT ![w] = "track_visit"]
  /\ UNCHANGED <<store, clock, ADMIN_EMAIL, MAIL_USERNAME, mail, acked>>

\* lines 82-88: the request is read and the clock is read once
TrackVisitBegin(w) ==
  /\ pc[w] = "idle"
  /\ Len(store) + Cardinality(Tracking) < MaxRecords
  /\ \E client \in Clients, body \in {"absent", "object"} :
       frame' = [frame EXCEPT ![w] =
                   [NoFrame EXCEPT !.current_time = clock,
                                   !.month = MonthOf(clock),
                                   !.year = YearOf(clock),
                                   !.ip_address = client.ip_address,
                                   !.user_agent = client.user_agent]]
  /\ pc' = [pc EXCEPT ![w] = "track_visit"]
  /\ endpoint' = [endpoint EXCEPT ![w] = "track_visit"]
  /\ UNCHANGED <<store, clock, ADMIN_EMAIL, MAIL_USERNAME, req, resp, log,
                 mail, acked>>

\* a view that acknowledges the visit whatever the commit did
TrackVisitReturnAlwaysCreated(committed) ==
  Response(201, [message |-> "Visit tracked successfully"])

\* lines 103 and 107: what the view returns
TrackVisitReturn(committed) ==
  IF committed
  THEN Response(201, [message |-> "Visit tracked successfully"])
  ELSE Response(500, [error |-> "Could not track visit"])

\* lines 90-107: the row is added and committed; a commit that fails writes
\* nothing, the session is rolled back and the error is logged
TrackVisitCommit(w) ==
  /\ pc[w] = "track_visit"
  /\ \E committed \in BOOLEAN :
       /\ store' = IF committed
                   THEN Insert(store,
                               Visitor(frame[w].ip_address, frame[w].user_agent,
                                       frame[w].month, frame[w].year),
                               clock)
                   ELSE store
       /\ acked' = IF committed THEN acked + 1 ELSE acked
       /\ Send(w, finalize_request(TrackVisitReturn(committed)),
               IF committed THEN {} ELSE {"Error tracking visit"})
  /\ UNCHANGED <<clock, ADMIN_EMAIL, MAIL_USERNAME, endpoint, mail>>

(***************************************************************************)
(* GET /api/monthly-visitors                                               *)
(***************************************************************************)
\* lines 111-113: the clock is read and the parameters are parsed
MonthlyVisitorsBegin(w) ==
  /\ pc[w] = "idle"
  /\ \E args \in Queries :
       /\ req' = [req EXCEPT ![w] = args]
       /\ frame' = [frame EXCEPT ![w] =
                      [NoFrame EXCEPT !.current_time = clock,
                                      !.month = args_get(args.month, MonthOf(clock)),
                                      !.year = args_get(args.year, YearOf(clock)),
                                      !.started = Len(store)]]
  /\ pc' = [pc EXCEPT ![w] = "get_monthly_visitors"]
  /\ endpoint' = [endpoint EXCEPT ![w] = "get_monthly_visitors"]
  /\ UNCHANGED <<store, clock, ADMIN_EMAIL, MAIL_USERNAME, resp, log, mail,
                 acked>>

\* line 123: unique_visitor_count + 2 or 2
unique_visitors(unique_visitor_count) ==
  IF unique_visitor_count + 2 # 0 THEN unique_visitor_count + 2 ELSE 2

\* lines 120-124 and 127: what the view returns
MonthlyVisitorsReturn(queried, month, year, unique_visitor_count) ==
  IF queried
  THEN Response(200, [month |-> month, year |-> year,
                      unique_visitors |-> unique_visitors(unique_visitor_count)])
  ELSE Response(500, [error |-> "Could not retrieve visitor count"])

\* lines 115-127: the table is queried; a query that fails is logged
MonthlyVisitorsQuery(w) ==
  /\ pc[w] = "get_monthly_visitors"
  /\ \E queried \in BOOLEAN :
       Send(w,
            finalize_request(
              MonthlyVisitorsReturn(
                queried, frame[w].month, frame[w].year,
                count_distinct_visitors(store, frame[w].month, frame[w].year))),
            IF queried THEN {} ELSE {"Error getting monthly visitor count"})
  /\ UNCHANGED <<store, clock, ADMIN_EMAIL, MAIL_USERNAME, endpoint, mail,
                 acked>>

(***************************************************************************)
(* POST /api/notify-click                                                  *)
(***************************************************************************)
\* line 52: "if not ADMIN_EMAIL or not app.config.get('MAIL_USERNAME')"
MailConfigured == ADMIN_EMAIL # None /\ MAIL_USERNAME # None

\* lines 131-132: valid JSON that is not an object has no .get; the view
\* raises before it reaches its try block
NotifyClickBadBody(w) ==
  /\ pc[w] = "idle"
  /\ Send(w, finalize_request(ErrorResponse("AttributeError")),
          {"Exception on /api/notify-click"})
  /\ endpoint' = [endpoint EXCEPT ![w] = "notify_click"]
  /\ UNCHANGED <<store, clock, ADMIN_EMAIL, MAIL_USERNAME, mail, acked>>

\* lines 131-151: the message is built and mail.send is called; an error of
\* the transport is logged and swallowed; the view ends without a return.
\* A message without a recipient or a sender is never delivered.
NotifyClick(w) ==
  /\ pc[w] = "idle"
  /\ \E body \in {"absent", "object", "malformed"}, delivered \in BOOLEAN :
       LET sent == delivered /\ MailConfigured
       IN /\ mail' = [mail EXCEPT ![w] = IF sent THEN "delivered" ELSE "failed"]
          /\ Send(w, finalize_request(NoResp),
                  (IF sent THEN {} ELSE {"Error sending visitor email via Gmail"})
                  \cup {"Exception on /api/notify-click"})
  /\ endpoint' = [endpoint EXCEPT ![w] = "notify_click"]
  /\ UNCHANGED <<store, clock, ADMIN_EMAIL, MAIL_USERNAME, acked>>

\* the client has the response; the handler takes the next request
Complete(w) ==
  /\ pc[w] = "sent"
  /\ pc' = [pc EXCEPT ![w] = "idle"]
  /\ endpoint' = [endpoint EXCEPT ![w] = None]
  /\ resp' = [resp EXCEPT ![w] = NoResp]
  /\ log' = [log EXCEPT ![w] = {}]
  /\ mail' = [mail EXCEPT ![w] = None]
  /\ UNCHANGED <<store, clock, ADMIN_EMAIL, MAIL_USERNAME, req, frame, acked>>

Next ==
  \/ Tick
  \/ \E w \in Workers : TrackVisitBadBody(w)
  \/ \E w \in Workers : TrackVisitBegin(w)
  \/ \E w \in Workers : TrackVisitCommit(w)
  \/ \E w \in Workers : MonthlyVisitorsBegin(w)
  \/ \E w \in Workers : MonthlyVisitorsQuery(w)
  \/ \E w \in Workers : NotifyClickBadBody(w)
  \/ \E w \in Workers : NotifyClick(w)
  \/ \E w \in Workers : Complete(w)

Spec == Init /\ [][Next]_vars

(***************************************************************************)
(* Properties.                                                             *)
(***************************************************************************)
\* the handler w answers its request in this step
Answers(w) == pc[w] # "sent" /\ pc'[w] = "sent"

\* the addresses of the first n rows of the table that lie in a period
Addresses(table, n, month, year) ==
  { table[i].ip_address :
      i \in { j \in 1 .. n : /\ table[j].visit_month = month
                             /\ table[j].visit_year = year } }

CorsHeaders ==
  { "Access-Control-Allow-Origin", "Access-Control-Allow-Headers",
    "Access-Control-Allow-Methods", "Access-Control-Allow-Credentials" }

\* C1: a track-visit request answered 201 has added exactly one row in the
\* step that answers it: the table is the old table plus one row with a new
\* id, the caller's address and agent, and the month and year of the instant
\* the handler read; rows with the same address and agent do not prevent it.
TrackVisitAddsOneRecord ==
  [][\A w \in Workers :
       (Answers(w) /\ endpoint'[w] = "track_visit" /\ resp'[w].status = 201)
       => /\ Len(store') = Len(store) + 1
          /\ SubSeq(store', 1, Len(store)) = store
          /\ LET r == store'[Len(store')]
             IN /\ r.ip_address = frame[w].ip_address
                /\ r.user_agent = frame[w].user_agent
                /\ r.visit_month = MonthOf(frame[w].current_time)
                /\ r.visit_year = YearOf(frame[w].current_time)
                /\ \A i \in 1 .. Len(store) : store[i].id # r.id]_vars

\* C1 witness: a 201 answer with two stored rows of one address and agent
TwoIdenticalVisitsStored ==
  \E w \in Workers :
    /\ pc[w] = "sent" /\ endpoint[w] = "track_visit" /\ resp[w].status = 201
    /\ Len(store) = 2
    /\ store[1].ip_address = store[2].ip_address
    /\ store[1].user_agent = store[2].user_agent
    /\ store[1].id # store[2].id

\* C2: every notify-click request ends with a 200-class response, whatever
\* its body and whatever the mail transport did.
NotifyClickAnswers2xx ==
  \A w \in Workers :
    (pc[w] = "sent" /\ endpoint[w] = "notify_click")
    => resp[w].status \in 200 .. 299

\* C3: a 200 answer of monthly-visitors carries the number of distinct
\* addresses among the stored rows of the period it names, plus 2 (so 2 when
\* no row matches).
UniqueVisitorsIsDistinctPlusTwo ==
  [][\A w \in Workers :
       (Answers(w) /\ endpoint'[w] = "get_monthly_visitors"
          /\ resp'[w].status = 200)
       => LET b == resp'[w].body
              matching == Addresses(store, Len(store), b.month, b.year)
          IN /\ b.unique_visitors = Cardinality(matching) + 2
             /\ (matching = {} => b.unique_visitors = 2)]_vars

\* C3 witness: an answer of 3 for a period holding two rows of one address
OneAddressCountedOnce ==
  \E w \in Workers :
    /\ pc[w] = "sent" /\ endpoint[w] = "get_monthly_visitors"
    /\ resp[w].status = 200
    /\ resp[w].body.unique_visitors = 3
    /\ Len(store) = 2
    /\ store[1].ip_address = store[2].ip_address
    /\ \A i \in 1 .. 2 : /\ store[i].visit_month = resp[w].body.month
                         /\ store[i].visit_year = resp[w].body.year

\* C4: every response sent on the three routes carries the four CORS
\* headers, the error responses the framework makes for a failed view too.
EveryResponseHasCors ==
  \A w \in Workers :
    pc[w] = "sent" => CorsHeaders \subseteq { h[1] : h \in resp[w].headers }

\* C4 witness: the framework's own 500 answer of a view that returned no
\* response, with the four headers on it
FrameworkErrorHasCors ==
  \E w \in Workers :
    /\ pc[w] = "sent" /\ endpoint[w] = "notify_click"
    /\ resp[w].status = 500
    /\ resp[w].body = [html |-> "Internal Server Error"]
    /\ CorsHeaders \subseteq { h[1] : h \in resp[w].headers }

\* C5: every stored row has the month and year of its own timestamp.
PeriodMatchesTimestamp ==
  \A i \in 1 .. Len(store) :
    /\ store[i].visit_month = MonthOf(store[i].timestamp)
    /\ store[i].visit_year = YearOf(store[i].timestamp)

\* C6: a track-visit request whose commit failed (the view logged the
\* error) is answered 500 with the generic body and leaves the table as it
\* was; and in every step the table grows by exactly one row per request
\* answered 201 in it, so a failure never changes what a later request adds.
FailedWriteLeavesStore ==
  [][/\ \A w \in Workers :
          (Answers(w) /\ "Error tracking visit" \in log'[w])
          => /\ resp'[w].status = 500
             /\ resp'[w].body = [error |-> "Could not track visit"]
             /\ store' = store
     /\ Len(store') = Len(store) +
          Cardinality({ w \in Workers :
                          /\ Answers(w) /\ endpoint'[w] = "track_visit"
                          /\ resp'[w].status = 201 })]_vars

\* C6 witness: a failed write answered while an earlier row is stored
FailedWriteAfterStoredVisit ==
  \E w \in Workers :
    /\ pc[w] = "sent" /\ endpoint[w] = "track_visit"
    /\ resp[w].status = 500
    /\ "Error tracking visit" \in log[w]
    /\ Len(store) = 1

\* C7: no step changes or removes a stored row, and a step in which a
\* monthly-visitors or notify-click handler moves leaves the table unchanged.
StoreIsAppendOnly ==
  [][/\ Len(store') >= Len(store)
     /\ \A i \in 1 .. Len(store) : store'[i] = store[i]
     /\ \A w \in Workers :
          (pc'[w] # pc[w]
             /\ endpoint'[w] \in {"get_monthly_visitors", "notify_click"})
          => store' = store]_vars

\* C7 witness: both rows still stored after an aggregation and a click
StoreKeptAcrossOtherRoutes ==
  \E w, v \in Workers :
    /\ pc[w] = "sent" /\ endpoint[w] = "get_monthly_visitors"
    /\ pc[v] = "sent" /\ endpoint[v] = "notify_click"
    /\ Len(store) = 2
    /\ store[1].timestamp # store[2].timestamp

\* what int() of Python makes of each raw parameter value of Queries
Parsed(raw, default) ==
  CASE raw = Absent -> default
    [] raw = <<"1", "2">> -> 12
    [] raw = <<"1", "3">> -> 13
    [] raw = <<" ", "1">> -> 1
    [] raw = <<"1", "x">> -> default
    [] raw = <<"2", "0", "2", "5">> -> 2025
    [] raw = <<"+", "2", "0", "2", "6">> -> 2026
    [] raw = <<"2", "0", "x", "5">> -> default

\* C8: a monthly-visitors request is answered 200, or 500 after a failed
\* query, never with a parsing error; the month and year of a 200 answer are
\* the parameter when it is an integer and the month or year of the instant
\* the handler read otherwise; the count is the count of that period, and
\* it is 2 for a month outside 1..12.
ParametersDefaultToCurrentPeriod ==
  [][\A w \in Workers :
       (Answers(w) /\ pc[w] = "get_monthly_visitors")
       => LET b == resp'[w].body
          IN /\ resp'[w].status \in {200, 500}
             /\ resp'[w].status = 500
                  => "Error getting monthly visitor count" \in log'[w]
             /\ resp'[w].status = 200
                  => /\ b.month = Parsed(req[w].month,
                                         MonthOf(frame[w].current_time))
                     /\ b.year = Parsed(req[w].year,
                                        YearOf(frame[w].current_time))
                     /\ b.unique_visitors =
                          Cardinality(Addresses(store, Len(store),
                                                b.month, b.year)) + 2
                     /\ (b.month \notin 1 .. 12 => b.unique_visitors = 2)]_vars

\* C8 witness: a request with an unparsable month that took January from the
\* clock, and an answer for month 13 of 2 while rows are stored
UnparsableAndOutOfRangeMonth ==
  \E w, v \in Workers :
    /\ pc[w] = "get_monthly_visitors"
    /\ req[w].month = <<"1", "x">>
    /\ frame[w].month = 1 /\ frame[w].year = 2026
    /\ pc[v] = "sent" /\ endpoint[v] = "get_monthly_visitors"
    /\ resp[v].status = 200
    /\ resp[v].body.month = 13
    /\ resp[v].body.unique_visitors = 2
    /\ Len(store) > 0

\* C9: when the administrator address or the sender is not configured, no
\* request makes a send on the mail transport.
NoSendWhenUnconfigured ==
  \A w \in Workers : ~MailConfigured => mail[w] = None

\* C10: every 201 answer stands for one stored row (none lost, none merged,
\* ids distinct), and a 200 answer of monthly-visitors counts at least the
\* distinct addresses of the rows of its period that were committed when the
\* request started, plus 2.
AcknowledgedVisitsAreCounted ==
  [][/\ acked' = Len(store')
     /\ \A i, j \in 1 .. Len(store') : i # j => store'[i].id # store'[j].id
     /\ \A w \in Workers :
          (Answers(w) /\ pc[w] = "get_monthly_visitors"
             /\ resp'[w].status = 200)
          => resp'[w].body.unique_visitors >=
               Cardinality(Addresses(store, frame[w].started,
                                     frame[w].month, frame[w].year)) + 2]_vars

\* C10 witness: two acknowledged visits of two addresses, both counted
BothAcknowledgedVisitsCounted ==
  \E w \in Workers :
    /\ pc[w] = "sent" /\ endpoint[w] = "get_monthly_visitors"
    /\ resp[w].status = 200
    /\ resp[w].body.unique_visitors = 4
    /\ acked = 2
====
